---- MODULE Spec2Model ----
(***************************************************************************)
(* Model of core-text-runs (src/src/lib.rs): splitting a string into font  *)
(* runs with Core Text and shaping each run with HarfBuzz.                 *)
(*                                                                         *)
(* The layout service (Core Text) and the shaping engine (HarfBuzz) are    *)
(* external: what they answer is an input of the model.  Every native call *)
(* that acquires or releases a resource is appended to `log`, which plays  *)
(* the part of an instrumented (counting) native layer.                    *)
(***************************************************************************)
EXTENDS Integers, Sequences, FiniteSets, TLC

VARIABLES
    text,      \* the &str the running operation works on (sequence of code points)
    frame,     \* the answer of the layout service for `text`
    op,        \* the operation in progress
    pc,        \* position of the operation
    runs,      \* Vec<TextRun> returned by collect_runs
    idx,       \* number of runs already handed to shape_run_with_harfbuzz
    results,   \* one entry per shaped run: the ShapingResult or the failure marker
    printed,   \* the run reports printed by split_str_into_runs_impl
    log,       \* native acquire/release calls made so far, in order
    call_base, \* Len(log) when the latest call of shape_run_with_harfbuzz began
    hb_last    \* what the shaping engine answered in that call

vars == <<text, frame, op, pc, runs, idx, results, printed, log, call_base, hb_last>>

(***************************************************************************)
(* Bounds of the model.                                                    *)
(***************************************************************************)
\* most code points in an input string
MaxChars == 2
\* most runs (null entries included) the layout service puts in a frame
MaxRuns == 2
\* most lines in a frame
MaxLines == 2
\* most glyphs the shaping engine returns for a run
MaxGlyphs == 1
\* width in bits of the machine word (isize / usize), scaled down
WordBits == 4
\* most calls of one operation in a row on one input
MaxCalls == 2

RECURSIVE Pow2(_)
Pow2(n) == IF n = 0 THEN 1 ELSE 2 * Pow2(n - 1)

IsizeMax == Pow2(WordBits - 1) - 1
IsizeMin == 0 - Pow2(WordBits - 1)
UsizeModulus == Pow2(WordBits)

\* two's-complement wrap of a mathematical integer into isize
WrapIsize(x) == ((x - IsizeMin) % UsizeModulus) + IsizeMin
\* `x as usize` for an isize x, and wrap of a usize sum
AsUsize(x) == x % UsizeModulus

(***************************************************************************)
(* Text: Rust strings are sequences of Unicode scalar values.  Three code  *)
(* points stand for the classes the code distinguishes: a BMP character,   *)
(* NUL, and a supplementary-plane character (two UTF-16 units).            *)
(***************************************************************************)
CharA == 97
CharNul == 0
CharEmoji == 128512

Chars == {CharA, CharNul, CharEmoji}

RECURSIVE SeqsUpTo(_, _)
SeqsUpTo(S, n) ==
    IF n = 0 THEN {<<>>}
    ELSE LET shorter == SeqsUpTo(S, n - 1)
         IN shorter \cup {Append(s, x) : s \in {t \in shorter : Len(t) = n - 1}, x \in S}

\* str::encode_utf16 of one char
encode_utf16_char(c) ==
    IF c < 65536 THEN <<c>>
    ELSE << 55296 + ((c - 65536) \div 1024), 56320 + ((c - 65536) % 1024) >>

\* str::encode_utf16
RECURSIVE encode_utf16(_)
encode_utf16(s) ==
    IF s = <<>> THEN <<>>
    ELSE encode_utf16_char(Head(s)) \o encode_utf16(Tail(s))

IsHighSurrogate(u) == u >= 55296 /\ u <= 56319
IsLowSurrogate(u) == u >= 56320 /\ u <= 57343

\* String::from_utf16: [ok, s]; Err on an unpaired surrogate
RECURSIVE from_utf16(_)
from_utf16(v) ==
    IF v = <<>> THEN [ok |-> TRUE, s |-> <<>>]
    ELSE LET u == Head(v)
         IN IF IsHighSurrogate(u)
            THEN IF Len(v) >= 2 /\ IsLowSurrogate(v[2])
                 THEN LET rest == from_utf16(Tail(Tail(v)))
                          c == 65536 + (u - 55296) * 1024 + (v[2] - 56320)
                      IN [ok |-> rest.ok, s |-> IF rest.ok THEN <<c>> \o rest.s ELSE <<>>]
                 ELSE [ok |-> FALSE, s |-> <<>>]
            ELSE IF IsLowSurrogate(u)
                 THEN [ok |-> FALSE, s |-> <<>>]
                 ELSE LET rest == from_utf16(Tail(v))
                      IN [ok |-> rest.ok, s |-> IF rest.ok THEN <<u>> \o rest.s ELSE <<>>]

\* the slice-and-decode of collect_runs: "" when the bounds exceed the encoded
\* text or the slice is not valid UTF-16
MutRunTextNoBoundsCheck(text_utf16, start_utf16, length_utf16) ==
    LET hi == IF start_utf16 + length_utf16 <= Len(text_utf16)
              THEN start_utf16 + length_utf16 ELSE Len(text_utf16)
        d == from_utf16(SubSeq(text_utf16, start_utf16 + 1, hi))
    IN IF d.ok THEN d.s ELSE <<>>

MutRunTextShortSlice(text_utf16, start_utf16, length_utf16) ==
    IF start_utf16 + length_utf16 <= Len(text_utf16)
    THEN LET d == from_utf16(SubSeq(text_utf16, start_utf16 + 1,
                                    start_utf16 + length_utf16 - 1))
         IN IF d.ok THEN d.s ELSE <<>>
    ELSE <<>>

run_text_of(text_utf16, start_utf16, length_utf16) ==
    IF start_utf16 + length_utf16 <= Len(text_utf16)
    THEN LET d == from_utf16(SubSeq(text_utf16, start_utf16 + 1,
                                    start_utf16 + length_utf16))
         IN IF d.ok THEN d.s ELSE <<>>
    ELSE <<>>

(***************************************************************************)
(* Fonts.  A font pointer is 0 (null) or the address of a font object.     *)
(* CTFontCopyPostScriptName answers a name, an empty name, or null.        *)
(***************************************************************************)
FontLatin == 1
FontEmoji == 2
FontEmptyName == 3
FontNoName == 4

FontPtrs == {FontLatin, FontEmoji, FontEmptyName, FontNoName}

NameLatin == <<"A", "r">>
NameEmoji == <<"E", "m", "o", "j", "i">>

CTFontCopyPostScriptName(font) ==
    CASE font = FontLatin -> [null |-> FALSE, str |-> NameLatin]
      [] font = FontEmoji -> [null |-> FALSE, str |-> NameEmoji]
      [] font = FontEmptyName -> [null |-> FALSE, str |-> <<>>]
      [] OTHER -> [null |-> TRUE, str |-> <<>>]

\* the system UI font of create_base_font is the font of the runs that need
\* no fallback
BaseFont == FontLatin

(***************************************************************************)
(* Native calls.  An event is [fn, obj, ptr]: the native function, the     *)
(* kind of object and its address (1 for the objects a call has one of).   *)
(***************************************************************************)
Ev(fn, obj, ptr) == [fn |-> fn, obj |-> obj, ptr |-> ptr]

AcquireFns == {"CTFontCreateUIFontForLanguage", "CFStringCreate",
               "CFAttributedStringCreateMutable",
               "CTFramesetterCreateWithAttributedString", "CGPathCreateWithRect",
               "CTFramesetterCreateFrame", "CFRetain", "CTFontCopyPostScriptName",
               "hb_coretext_font_create", "hb_buffer_create"}
ReleaseFns == {"CFRelease", "CGPathRelease", "hb_font_destroy", "hb_buffer_destroy"}

ObjKinds == {"font", "cf_string", "attr_string", "framesetter", "path", "frame",
             "ps_name", "hb_font", "hb_buffer"}

\* number of events of l that satisfy Test
RECURSIVE CountEv(_, _, _, _)
CountEv(l, fns, obj, ptr) ==
    IF l = <<>> THEN 0
    ELSE (IF Head(l).fn \in fns /\ Head(l).obj = obj /\ Head(l).ptr = ptr THEN 1 ELSE 0)
         + CountEv(Tail(l), fns, obj, ptr)

Acquired(l, obj, ptr) == CountEv(l, AcquireFns, obj, ptr)
Released(l, obj, ptr) == CountEv(l, ReleaseFns, obj, ptr)
Outstanding(l, obj, ptr) == Acquired(l, obj, ptr) - Released(l, obj, ptr)

(***************************************************************************)
(* The layout service's answer.  A frame is its line array (possibly null);*)
(* a line is null, has a null run array, or has runs; a run entry is null  *)
(* or carries a string range (CFRange of isize), an attribute dictionary   *)
(* (present or null) and the font stored under kCTFontAttributeName.       *)
(***************************************************************************)
NullRun == [null |-> TRUE, location |-> 0, length |-> 0, attrs |-> FALSE, font |-> 0]
LayoutRun(l, n, a, f) ==
    [null |-> FALSE, location |-> l, length |-> n, attrs |-> a, font |-> f]

NullLine == [null |-> TRUE, runs_null |-> TRUE, runs |-> <<>>]
NullRunsLine == [null |-> FALSE, runs_null |-> TRUE, runs |-> <<>>]
Line(rs) == [null |-> FALSE, runs_null |-> FALSE, runs |-> rs]

LinesNullFrame == [lines_null |-> TRUE, lines |-> <<>>]
FrameOf(ls) == [lines_null |-> FALSE, lines |-> ls]

ValidRanges(total) ==
    {<<l, n>> : l \in 0..total, n \in 0..total} \cap
    {r \in (0..total) \X (0..total) : r[1] + r[2] <= total}

\* ranges inconsistent with the text: negative location, negative length, end
\* beyond the text, and a sum beyond the machine word
MalformedRanges(total) ==
    {<<0 - 1, 1>>, <<0, 0 - 1>>, <<0, total + 1>>, <<IsizeMax, 1>>, <<1, IsizeMax>>}

LayoutRuns(total) ==
    {LayoutRun(r[1], r[2], TRUE, FontLatin) : r \in ValidRanges(total) \cup MalformedRanges(total)}
    \cup {LayoutRun(l, total - l, TRUE, FontEmoji) : l \in 0..total}
    \cup {NullRun,
          LayoutRun(0, total, FALSE, 0),
          LayoutRun(0, total, TRUE, 0),
          LayoutRun(0, total, TRUE, FontEmptyName),
          LayoutRun(0, total, TRUE, FontNoName)}

\* the lines of a frame: the runs on one line, or one run per line, with null
\* lines and null run arrays among them
LineLayouts(rs) ==
    {<<Line(rs)>>}
    \cup (IF Len(rs) >= 2 /\ Len(rs) <= MaxLines
          THEN {[i \in 1..Len(rs) |-> Line(<<rs[i]>>)]} ELSE {})
    \cup (IF Len(rs) = 1 /\ MaxLines >= 2
          THEN {<<NullLine, Line(rs)>>, <<Line(rs), NullRunsLine>>} ELSE {})

\* f is a frame the layout service may answer for a text of `total` units
IsFrame(f, total) ==
    \/ f \in {LinesNullFrame, FrameOf(<<>>)}
    \/ \E n \in 0..MaxRuns : \E rs \in [1..n -> LayoutRuns(total)] :
          \E ls \in LineLayouts(rs) : f = FrameOf(ls)

\* the run entries a walk of the frame visits: line order, then run order
\* (lib.rs 145-161: null lines and null run arrays are passed over)
RECURSIVE VisitedRuns(_)
VisitedRuns(lines) ==
    IF lines = <<>> THEN <<>>
    ELSE (IF Head(lines).null \/ Head(lines).runs_null THEN <<>> ELSE Head(lines).runs)
         \o VisitedRuns(Tail(lines))

(***************************************************************************)
(* collect_runs_from_frame (lib.rs 117-213).  `checks` is the build's      *)
(* overflow-checks setting: with it an overflowing isize addition panics,  *)
(* without it the sum wraps.  The state st is [out, log, panicked].        *)
(***************************************************************************)
RunRaw(l, n, name, font) ==
    [utf16_location |-> l, utf16_length |-> n, postscript_name |-> name, font_ptr |-> font]

\* lib.rs 164
MutRangeRejectedOffByOne(range_location, range_length, utf16_total) ==
    range_location < 0 \/ range_length < 0
        \/ WrapIsize(range_location + range_length) >= utf16_total

MutRangeRejectedNoNegative(range_location, range_length, utf16_total) ==
    WrapIsize(range_location + range_length) > utf16_total

RangeRejected(range_location, range_length, utf16_total) ==
    range_location < 0 \/ range_length < 0
        \/ WrapIsize(range_location + range_length) > utf16_total

\* the addition of lib.rs 164 is evaluated (both operands non-negative) and
\* leaves isize
RangeSumOverflows(range_location, range_length) ==
    range_location >= 0 /\ range_length >= 0 /\ range_location + range_length > IsizeMax

\* lib.rs 193-200
MutNameRejectedNullOnly(name) == name.null

MutNameRejectedEmptyOnly(name) == ~name.null /\ name.str = <<>>

NameRejected(name) == name.null \/ name.str = <<>>

\* one iteration of the inner loop, lib.rs 158-207
VisitRun(run, utf16_total, checks, st) ==
    IF st.panicked \/ run.null THEN st
    ELSE IF checks /\ RangeSumOverflows(run.location, run.length)
         THEN [st EXCEPT !.panicked = TRUE]
    ELSE IF RangeRejected(run.location, run.length, utf16_total) THEN st
    ELSE IF ~run.attrs THEN st
    ELSE IF run.font = 0 THEN st
    ELSE LET name == CTFontCopyPostScriptName(run.font)
             retained == Append(st.log, Ev("CFRetain", "font", run.font))
             named == IF name.null THEN retained
                      ELSE retained \o <<Ev("CTFontCopyPostScriptName", "ps_name", 1),
                                         Ev("CFRelease", "ps_name", 1)>>
         IN IF NameRejected(name)
            THEN [st EXCEPT !.log = named]
            ELSE [st EXCEPT !.log = named,
                            !.out = Append(st.out, RunRaw(run.location, run.length,
                                                          name.str, run.font))]

RECURSIVE VisitRuns(_, _, _, _)
VisitRuns(rs, utf16_total, checks, st) ==
    IF rs = <<>> THEN st
    ELSE VisitRuns(Tail(rs), utf16_total, checks, VisitRun(Head(rs), utf16_total, checks, st))

MutCollectLastRunFirst(t, f, checks, l) ==
    LET st0 == [out |-> <<>>, log |-> l, panicked |-> FALSE]
        v == IF f.lines_null THEN <<>> ELSE VisitedRuns(f.lines)
        rev == [i \in 1..Len(v) |-> v[Len(v) + 1 - i]]
    IN VisitRuns(rev, Len(encode_utf16(t)), checks, st0)

collect_runs_from_frame(t, f, checks, l) ==
    LET st0 == [out |-> <<>>, log |-> l, panicked |-> FALSE]
    IN IF f.lines_null THEN st0
       ELSE VisitRuns(VisitedRuns(f.lines), Len(encode_utf16(t)), checks, st0)

(***************************************************************************)
(* collect_runs (lib.rs 216-312): builds the frame, collects the raw runs, *)
(* converts each to a TextRun and drops its locals.                        *)
(***************************************************************************)
TextRun(t, name, start, len, font) ==
    [text |-> t, font_name |-> name, start_utf16 |-> start, length_utf16 |-> len,
     font_ptr |-> font]

\* lib.rs 287-309
ToTextRun(raw_run, text_utf16) ==
    TextRun(run_text_of(text_utf16, raw_run.utf16_location, raw_run.utf16_length),
            raw_run.postscript_name, raw_run.utf16_location, raw_run.utf16_length,
            raw_run.font_ptr)

\* lib.rs 218-278: the base font and the attributed string are created and
\* then forgotten (std::mem::forget), so their wrappers never release them
BuildFrameLog ==
    <<Ev("CTFontCreateUIFontForLanguage", "font", BaseFont),
      Ev("CFStringCreate", "cf_string", 1),
      Ev("CFAttributedStringCreateMutable", "attr_string", 1),
      Ev("CTFramesetterCreateWithAttributedString", "framesetter", 1),
      Ev("CGPathCreateWithRect", "path", 1),
      Ev("CTFramesetterCreateFrame", "frame", 1)>>

\* the locals dropped when collect_runs returns, in reverse order of
\* declaration: frame, path, framesetter, cf_string
DropFrameLog ==
    <<Ev("CFRelease", "frame", 1),
      Ev("CGPathRelease", "path", 1),
      Ev("CFRelease", "framesetter", 1),
      Ev("CFRelease", "cf_string", 1)>>

collect_runs(t, f, checks, l) ==
    LET raw == collect_runs_from_frame(t, f, checks, l \o BuildFrameLog)
        text_utf16 == encode_utf16(t)
    IN IF raw.panicked
       THEN [runs |-> <<>>, log |-> raw.log, panicked |-> TRUE]
       ELSE [runs |-> [i \in 1..Len(raw.out) |-> ToTextRun(raw.out[i], text_utf16)],
             log |-> raw.log \o DropFrameLog,
             panicked |-> FALSE]

(***************************************************************************)
(* split_str_into_runs_impl (lib.rs 314-517): the same frame build, then a *)
(* walk that prints every run.  It wraps each line, run array and run in   *)
(* an owning wrapper (wrap_under_get_rule panics on null) and converts the *)
(* range with `as usize` without validating it.                            *)
(***************************************************************************)
PrintedRun(t, font, name) == [text |-> t, font_ptr |-> font, postscript_name |-> name]

NameNull == <<"(", "n", "u", "l", "l", ")">>
NameNoFont == <<"(", "n", "o", " ", "f", "o", "n", "t", ")">>

\* lib.rs 316-405; the debug print of the base font's name copies and drops it
ImplBuildFrameLog ==
    <<Ev("CTFontCreateUIFontForLanguage", "font", BaseFont),
      Ev("CTFontCopyPostScriptName", "ps_name", 1),
      Ev("CFRelease", "ps_name", 1),
      Ev("CFStringCreate", "cf_string", 1),
      Ev("CFAttributedStringCreateMutable", "attr_string", 1),
      Ev("CTFramesetterCreateWithAttributedString", "framesetter", 1),
      Ev("CGPathCreateWithRect", "path", 1),
      Ev("CTFramesetterCreateFrame", "frame", 1)>>

\* locals dropped on return, in reverse order of declaration
ImplDropLog ==
    <<Ev("CFRelease", "frame", 1),
      Ev("CGPathRelease", "path", 1),
      Ev("CFRelease", "framesetter", 1),
      Ev("CFRelease", "attr_string", 1),
      Ev("CFRelease", "cf_string", 1),
      Ev("CFRelease", "font", BaseFont)>>

\* one iteration of the run loop, lib.rs 437-512
ImplVisitRun(run, text_utf16, checks, st) ==
    IF st.panicked THEN st
    ELSE IF run.null THEN [st EXCEPT !.panicked = TRUE]
    ELSE LET font_ptr == IF run.attrs THEN run.font ELSE 0
             name == CTFontCopyPostScriptName(font_ptr)
             postscript_name == IF font_ptr = 0 THEN NameNoFont
                                ELSE IF name.null THEN NameNull ELSE name.str
             named == IF font_ptr = 0 \/ name.null THEN st.log
                      ELSE st.log \o <<Ev("CTFontCopyPostScriptName", "ps_name", 1),
                                       Ev("CFRelease", "ps_name", 1)>>
             start_utf16 == AsUsize(run.location)
             length_utf16 == AsUsize(run.length)
             sum == start_utf16 + length_utf16
             end == AsUsize(sum)
         IN IF checks /\ sum >= UsizeModulus
            THEN [st EXCEPT !.log = named, !.panicked = TRUE]
            ELSE IF end <= Len(text_utf16) /\ start_utf16 > end
            THEN [st EXCEPT !.log = named, !.panicked = TRUE]
            ELSE LET run_text == IF end <= Len(text_utf16)
                                 THEN run_text_of(text_utf16, start_utf16, end - start_utf16)
                                 ELSE <<>>
                 IN [st EXCEPT !.log = named,
                               !.printed = Append(st.printed,
                                   PrintedRun(run_text, font_ptr, postscript_name))]

RECURSIVE ImplVisitRuns(_, _, _, _)
ImplVisitRuns(rs, text_utf16, checks, st) ==
    IF rs = <<>> THEN st
    ELSE ImplVisitRuns(Tail(rs), text_utf16, checks,
                       ImplVisitRun(Head(rs), text_utf16, checks, st))

\* the line loop, lib.rs 429-515
RECURSIVE ImplVisitLines(_, _, _, _)
ImplVisitLines(lines, text_utf16, checks, st) ==
    IF lines = <<>> \/ st.panicked THEN st
    ELSE IF Head(lines).null \/ Head(lines).runs_null
         THEN [st EXCEPT !.panicked = TRUE]
         ELSE ImplVisitLines(Tail(lines), text_utf16, checks,
                             ImplVisitRuns(Head(lines).runs, text_utf16, checks, st))

\* null_faults: whether CFArrayGetCount(NULL) of lib.rs 422 faults (it is
\* undefined; the other outcome is a count of 0)
split_str_into_runs_impl(t, f, checks, null_faults, l) ==
    LET st0 == [printed |-> <<>>, log |-> l \o ImplBuildFrameLog, panicked |-> FALSE]
        st == IF f.lines_null
              THEN [st0 EXCEPT !.panicked = null_faults]
              ELSE ImplVisitLines(f.lines, encode_utf16(t), checks, st0)
    IN IF st.panicked THEN st ELSE [st EXCEPT !.log = st.log \o ImplDropLog]

(***************************************************************************)
(* shape_run_with_harfbuzz (lib.rs 521-647).  hb is what the shaping       *)
(* engine answers: whether it creates the font wrapper and the buffer, and *)
(* the glyph arrays and count it reports after hb_shape.                   *)
(***************************************************************************)
None ==
    [some |-> FALSE, run_text |-> <<>>, font_name |-> <<>>, glyph_count |-> 0,
     glyph_ids |-> <<>>, cluster_indices |-> <<>>, x_advances |-> <<>>, y_advances |-> <<>>]

GlyphInfo(i) == [codepoint |-> 40 + i, cluster |-> i - 1]
GlyphPosition(i) == [x_advance |-> 600 * i, y_advance |-> 0]

HbFontFails ==
    [font_null |-> TRUE, buffer_null |-> FALSE, infos_null |-> FALSE,
     positions_null |-> FALSE, glyph_count |-> 0]
HbBufferFails ==
    [font_null |-> FALSE, buffer_null |-> TRUE, infos_null |-> FALSE,
     positions_null |-> FALSE, glyph_count |-> 0]
HbShapes(i, p, n) ==
    [font_null |-> FALSE, buffer_null |-> FALSE, infos_null |-> i,
     positions_null |-> p, glyph_count |-> n]

HbOutcomes ==
    {HbFontFails, HbBufferFails}
    \cup {HbShapes(i, p, n) : i \in BOOLEAN, p \in BOOLEAN, n \in 0..MaxGlyphs}

\* str::contains
contains(s, pat) ==
    \E k \in 0..(Len(s) - Len(pat)) : SubSeq(s, k + 1, k + Len(pat)) = pat

\* lib.rs 584-590
script_of(font_name) ==
    IF contains(font_name, <<"E", "m", "o", "j", "i">>)
           \/ contains(font_name, <<"e", "m", "o", "j", "i">>)
    THEN "HB_SCRIPT_COMMON" ELSE "HB_SCRIPT_LATIN"

\* CString::new fails on an interior NUL byte (lib.rs 561-569)
CStringFails(t) == \E i \in 1..Len(t) : t[i] = CharNul

\* lib.rs 544-548
MutWrapperFailureNoRelease(font_ptr) == <<>>

CleanupWrapperFailure(font_ptr) == <<Ev("CFRelease", "font", font_ptr)>>

\* lib.rs 553-558
MutBufferFailureNoRelease(font_ptr) == <<Ev("hb_font_destroy", "hb_font", 1)>>

MutBufferFailureKeepsWrapper(font_ptr) == <<Ev("CFRelease", "font", font_ptr)>>

CleanupBufferFailure(font_ptr) ==
    <<Ev("hb_font_destroy", "hb_font", 1), Ev("CFRelease", "font", font_ptr)>>

\* lib.rs 564-566, 608-610 and 633-635
MutCleanupAllTwice(font_ptr) ==
    <<Ev("hb_buffer_destroy", "hb_buffer", 1), Ev("hb_font_destroy", "hb_font", 1),
      Ev("CFRelease", "font", font_ptr), Ev("CFRelease", "font", font_ptr)>>

MutCleanupAllReleaseFirst(font_ptr) ==
    <<Ev("CFRelease", "font", font_ptr), Ev("hb_buffer_destroy", "hb_buffer", 1),
      Ev("hb_font_destroy", "hb_font", 1)>>

CleanupAll(font_ptr) ==
    <<Ev("hb_buffer_destroy", "hb_buffer", 1), Ev("hb_font_destroy", "hb_font", 1),
      Ev("CFRelease", "font", font_ptr)>>

\* lib.rs 607
MutGlyphsUnusableNoCount(hb) == hb.infos_null \/ hb.positions_null

GlyphsUnusable(hb) == hb.infos_null \/ hb.positions_null \/ hb.glyph_count = 0

\* lib.rs 615-630 and 637-645: the extraction loop pushes one entry to each of
\* the four vectors per glyph
RECURSIVE ExtractGlyphs(_, _, _)
ExtractGlyphs(i, glyph_count, acc) ==
    IF i > glyph_count THEN acc
    ELSE ExtractGlyphs(i + 1, glyph_count,
            [acc EXCEPT !.glyph_ids = Append(@, GlyphInfo(i).codepoint),
                        !.cluster_indices = Append(@, GlyphInfo(i).cluster),
                        !.x_advances = Append(@, GlyphPosition(i).x_advance),
                        !.y_advances = Append(@, GlyphPosition(i).y_advance)])

ShapingResult(run, glyph_count) ==
    ExtractGlyphs(1, glyph_count,
        [some |-> TRUE, run_text |-> run.text, font_name |-> run.font_name,
         glyph_count |-> glyph_count, glyph_ids |-> <<>>, cluster_indices |-> <<>>,
         x_advances |-> <<>>, y_advances |-> <<>>])

shape_run_with_harfbuzz(run, hb, l) ==
    IF run.font_ptr = 0 THEN [result |-> None, log |-> l]
    ELSE IF hb.font_null
    THEN [result |-> None, log |-> l \o CleanupWrapperFailure(run.font_ptr)]
    ELSE LET l1 == Append(l, Ev("hb_coretext_font_create", "hb_font", 1))
         IN IF hb.buffer_null
            THEN [result |-> None, log |-> l1 \o CleanupBufferFailure(run.font_ptr)]
            ELSE LET l2 == Append(l1, Ev("hb_buffer_create", "hb_buffer", 1))
                 IN IF CStringFails(run.text)
                    THEN [result |-> None, log |-> l2 \o CleanupAll(run.font_ptr)]
                    ELSE LET l3 == Append(l2, Ev("hb_buffer_set_script",
                                                 script_of(run.font_name), 1))
                         IN IF GlyphsUnusable(hb)
                            THEN [result |-> None, log |-> l3 \o CleanupAll(run.font_ptr)]
                            ELSE [result |-> ShapingResult(run, hb.glyph_count),
                                  log |-> l3 \o CleanupAll(run.font_ptr)]

(***************************************************************************)
(* The operations.                                                         *)
(***************************************************************************)
\* the text of a C string (lib.rs 98-102, 654-658): CStr::from_ptr ends at the
\* first NUL, so the &str handed on holds none
FfiTexts == SeqsUpTo(Chars \ {CharNul}, MaxChars)

\* a &str of a Rust caller may hold NUL
RustTexts == SeqsUpTo(Chars, MaxChars)

Utf16Len(t) == Len(encode_utf16(t))

\* lib.rs 677-686: one report per run, the result or "Shaping failed"
MutReportOnlySuccess(rs, r) == IF r.some THEN Append(rs, r) ELSE rs

ReportEntry(rs, r) == Append(rs, r)

Init ==
    /\ text \in FfiTexts
    /\ IsFrame(frame, Utf16Len(text))
    /\ op = "none"
    /\ pc = "idle"
    /\ runs = <<>>
    /\ idx = 0
    /\ results = <<>>
    /\ printed = <<>>
    /\ log = <<>>
    /\ call_base = 0
    /\ hb_last = HbFontFails

\* split_and_shape_text, step 1 (lib.rs 651-668): collect_runs
SplitAndShapeCollect ==
    /\ pc = "idle"
    /\ \E checks \in BOOLEAN :
          LET c == collect_runs(text, frame, checks, log)
          IN /\ runs' = c.runs
             /\ log' = c.log
             /\ pc' = IF c.panicked THEN "aborted" ELSE "shaping"
    /\ op' = "split_and_shape_text"
    /\ idx' = 0
    /\ UNCHANGED <<text, frame, results, printed, call_base, hb_last>>

\* split_and_shape_text, step 2 (lib.rs 671-688): one iteration of the loop
ShapeNextRun ==
    /\ pc = "shaping"
    /\ idx < Len(runs)
    /\ \E hb \in HbOutcomes :
          LET r == shape_run_with_harfbuzz(runs[idx + 1], hb, log)
          IN /\ results' = ReportEntry(results, r.result)
             /\ log' = r.log
             /\ hb_last' = hb
    /\ call_base' = Len(log)
    /\ idx' = idx + 1
    /\ UNCHANGED <<text, frame, op, pc, runs, printed>>

\* split_and_shape_text returns (lib.rs 690)
ShapeReturn ==
    /\ pc = "shaping"
    /\ idx = Len(runs)
    /\ pc' = "done"
    /\ UNCHANGED <<text, frame, op, runs, idx, results, printed, log, call_base, hb_last>>

\* split_str_into_runs (lib.rs 95-106) and its body split_str_into_runs_impl
SplitStrIntoRuns ==
    /\ pc = "idle"
    /\ \E checks \in BOOLEAN, null_faults \in BOOLEAN :
          LET c == split_str_into_runs_impl(text, frame, checks, null_faults, log)
          IN /\ printed' = c.printed
             /\ log' = c.log
             /\ pc' = IF c.panicked THEN "aborted" ELSE "done"
    /\ op' = "split_str_into_runs"
    /\ UNCHANGED <<text, frame, runs, idx, results, call_base, hb_last>>

Next == SplitAndShapeCollect \/ ShapeNextRun \/ ShapeReturn \/ SplitStrIntoRuns

Spec == Init /\ [][Next]_vars

\* run collection alone: the first step of either operation
NextCollect == SplitAndShapeCollect \/ SplitStrIntoRuns

SpecCollect == Init /\ [][NextCollect]_vars

(***************************************************************************)
(* Direct use of the public shape_run_with_harfbuzz by a Rust caller, who  *)
(* hands in a TextRun of its making; for a non-null font_ptr the caller    *)
(* holds the reference the run carries.                                    *)
(***************************************************************************)
\* a font name that spells "emoji" in another letter-casing
NameUpperEmoji == <<"E", "M", "O", "J", "I">>

CallerFontNames == {NameLatin, NameEmoji, NameUpperEmoji}

CallerRuns ==
    {TextRun(t, n, 0, Utf16Len(t), f) :
        t \in RustTexts, n \in CallerFontNames, f \in {0} \cup FontPtrs}

InitShape ==
    /\ \E r \in CallerRuns :
          /\ runs = <<r>>
          /\ text = r.text
          /\ log = IF r.font_ptr = 0 THEN <<>> ELSE <<Ev("CFRetain", "font", r.font_ptr)>>
    /\ frame = LinesNullFrame
    /\ op = "shape_run_with_harfbuzz"
    /\ pc = "shaping"
    /\ idx = 0
    /\ results = <<>>
    /\ printed = <<>>
    /\ call_base = 0
    /\ hb_last = HbFontFails

NextShape == ShapeNextRun \/ ShapeReturn

SpecShape == InitShape /\ [][NextShape]_vars

(***************************************************************************)
(* Properties.                                                             *)
(***************************************************************************)
\* collect_runs of split_and_shape_text has returned
Collected == op = "split_and_shape_text" /\ pc \in {"shaping", "done"}

TotalUnits == Utf16Len(text)

\* the native calls of the latest call of shape_run_with_harfbuzz
LastCallLog == SubSeq(log, call_base + 1, Len(log))

\* the non-null run entries the layout service put in the frame
LayoutRunsOf(f) ==
    IF f.lines_null THEN <<>>
    ELSE SelectSeq(VisitedRuns(f.lines), LAMBDA r : ~r.null)

\* no null line array, null line, null run array or null run entry
FrameWellStructured(f) ==
    /\ ~f.lines_null
    /\ \A i \in 1..Len(f.lines) :
          /\ ~f.lines[i].null
          /\ ~f.lines[i].runs_null
          /\ \A j \in 1..Len(f.lines[i].runs) : ~f.lines[i].runs[j].null

\* the ranges [start, start+len) of rs tile [0, total): every range lies in it
\* and every code unit is in exactly one
Tiles(starts, lens, total) ==
    /\ \A i \in DOMAIN starts :
          starts[i] >= 0 /\ lens[i] >= 0 /\ starts[i] + lens[i] <= total
    /\ \A u \in 0..(total - 1) :
          Cardinality({i \in DOMAIN starts : starts[i] <= u /\ u < starts[i] + lens[i]}) = 1

RECURSIVE SumSeq(_)
SumSeq(q) == IF q = <<>> THEN 0 ELSE Head(q) + SumSeq(Tail(q))

RunStarts == [i \in DOMAIN runs |-> runs[i].start_utf16]
RunLens == [i \in DOMAIN runs |-> runs[i].length_utf16]

\* the run carries a font attribute whose PostScript name is non-empty
HasNamedFont(r) ==
    /\ r.attrs
    /\ r.font # 0
    /\ r.font \in {FontLatin, FontEmoji}

\* the slice [start, start+len) of the source's UTF-16 encoding lies inside it
SliceInBounds(r) == r.start_utf16 + r.length_utf16 <= TotalUnits

SliceOf(r) ==
    SubSeq(encode_utf16(text), r.start_utf16 + 1, r.start_utf16 + r.length_utf16)

\* no unpaired surrogate: every high surrogate is followed by a low one and
\* every low one follows a high one
WellFormedUtf16(v) ==
    \A k \in 1..Len(v) :
        /\ IsHighSurrogate(v[k]) => (k < Len(v) /\ IsLowSurrogate(v[k + 1]))
        /\ IsLowSurrogate(v[k]) => (k > 1 /\ IsHighSurrogate(v[k - 1]))

\* the range is inconsistent with the text: a negative location, a negative
\* length or an end beyond total_units
MalformedRange(r) ==
    r.location < 0 \/ r.length < 0 \/ r.location + r.length > TotalUnits

\* every range of the frame has a sum that fits the machine word
RangeSumsFit(f) ==
    \A i \in DOMAIN LayoutRunsOf(f) :
        LET r == LayoutRunsOf(f)[i]
        IN r.location + r.length <= IsizeMax /\ r.location + r.length >= IsizeMin

\* C1: resource balance: after split_and_shape_text has returned, every native
\* resource the call acquired (base font, attributed string, frame objects,
\* retained run fonts, shaping buffers and font wrappers) has been released as
\* often as it was acquired.
C1_ResourceBalance ==
    (op = "split_and_shape_text" /\ pc = "done") =>
        \A obj \in ObjKinds, ptr \in {1} \cup FontPtrs : Outstanding(log, obj, ptr) = 0

\* C2: a call of shape_run_with_harfbuzz on a run with a non-null font handle
\* releases that handle exactly once, whether it ends in a ShapingResult or in
\* a failure (wrapper, buffer, embedded NUL, null arrays or zero glyphs).
C2_ShapeReleasesFontOnce ==
    (idx >= 1 /\ runs[idx].font_ptr # 0) =>
        CountEv(LastCallLog, ReleaseFns, "font", runs[idx].font_ptr) = 1

\* C2 witness: a call on a run whose text holds a NUL failed after the buffer
\* existed and released the font handle.
C2_WitnessNulFailure ==
    /\ op = "shape_run_with_harfbuzz"
    /\ idx = 1
    /\ runs[1].font_ptr # 0
    /\ CStringFails(runs[1].text)
    /\ ~results[1].some
    /\ CountEv(LastCallLog, {"hb_buffer_destroy"}, "hb_buffer", 1) = 1
    /\ CountEv(LastCallLog, ReleaseFns, "font", runs[1].font_ptr) = 1

\* C3 as stated: coverage: the emitted runs tile [0, total_units) with no gap
\* and no overlap, and their lengths sum to total_units, for any frame.  Stated
\* for frames whose range sums fit the machine word.
C3_CoverageAnyFrame ==
    (Collected /\ RangeSumsFit(frame)) =>
        /\ Tiles(RunStarts, RunLens, TotalUnits)
        /\ SumSeq(RunLens) = TotalUnits

\* the layout service's runs tile the text and each has a named font
LayoutCovers ==
    LET lr == LayoutRunsOf(frame)
    IN /\ ~frame.lines_null
       /\ \A i \in DOMAIN lr : HasNamedFont(lr[i])
       /\ Tiles([i \in DOMAIN lr |-> lr[i].location],
                [i \in DOMAIN lr |-> lr[i].length], TotalUnits)

\* C3 amended: when the runs the layout service returns tile [0, total_units)
\* and each carries a font with a non-empty name, the emitted runs tile
\* [0, total_units) and their lengths sum to total_units.
C3_CoverageWhenLayoutCovers ==
    (Collected /\ LayoutCovers) =>
        /\ Tiles(RunStarts, RunLens, TotalUnits)
        /\ SumSeq(RunLens) = TotalUnits

\* C3 witness: two layout runs tile a text of two or more units and both are
\* emitted.
C3_WitnessTwoRunsCover ==
    /\ Collected
    /\ LayoutCovers
    /\ TotalUnits >= 2
    /\ Len(runs) = 2
    /\ runs[1].length_utf16 >= 1
    /\ runs[2].length_utf16 >= 1

\* C4: every emitted run has start >= 0, length >= 0 and start + length <=
\* total_units; a run reported with a negative location, a negative length or
\* an end beyond the text is never emitted.
C4_EmittedRangesValid ==
    Collected =>
        \A i \in DOMAIN runs :
            /\ runs[i].start_utf16 >= 0
            /\ runs[i].length_utf16 >= 0
            /\ runs[i].start_utf16 + runs[i].length_utf16 <= TotalUnits

\* C5: every emitted run has a non-empty font name and a non-null font handle;
\* runs without a font attribute, or whose font has no name or an empty name,
\* are never emitted (no more runs are emitted than the frame has runs with a
\* named font).
C5_EmittedRunsHaveFont ==
    Collected =>
        /\ \A i \in DOMAIN runs :
              /\ runs[i].font_name # <<>>
              /\ runs[i].font_ptr # 0
              /\ runs[i].font_ptr \in {FontLatin, FontEmoji}
        /\ Len(runs) <= Len(SelectSeq(LayoutRunsOf(frame), HasNamedFont))

\* C5 witness: the frame holds a run whose font has an empty name and a run
\* with a named font; only the latter is emitted.
C5_WitnessEmptyNameDropped ==
    /\ Collected
    /\ Len(LayoutRunsOf(frame)) = 2
    /\ \E i \in 1..2 : LayoutRunsOf(frame)[i].font = FontEmptyName
    /\ Len(runs) = 1

\* C6 as stated: round trip: for every emitted run the text is the decoding of
\* the slice [start, start+length) of the source's UTF-16 encoding, that is,
\* the slice exists and the text encodes to it.  Stated for frames whose range
\* sums fit the machine word.
C6_RoundTrip ==
    (Collected /\ RangeSumsFit(frame)) =>
        \A i \in DOMAIN runs :
            /\ SliceInBounds(runs[i])
            /\ encode_utf16(runs[i].text) = SliceOf(runs[i])

\* C6 amended: for every emitted run whose range lies inside the encoded source
\* and splits no surrogate pair, the text encodes to exactly that slice; for
\* every other emitted run the text is empty.
C6_RoundTripWellFormed ==
    Collected =>
        \A i \in DOMAIN runs :
            IF SliceInBounds(runs[i]) /\ WellFormedUtf16(SliceOf(runs[i]))
            THEN encode_utf16(runs[i].text) = SliceOf(runs[i])
            ELSE runs[i].text = <<>>

\* C6 witness: an emitted run covers a supplementary-plane character and its
\* text is that character.
C6_WitnessSurrogatePair ==
    /\ Collected
    /\ \E i \in DOMAIN runs :
          /\ runs[i].length_utf16 = 2
          /\ runs[i].text = <<CharEmoji>>

\* C7 as stated: the text of a returned run is empty only if its length_utf16
\* is 0, for any range that passes the range validation.  Stated for frames
\* whose range sums fit the machine word.
C7_EmptyTextOnlyIfZeroLength ==
    (Collected /\ RangeSumsFit(frame)) =>
        \A i \in DOMAIN runs : runs[i].text = <<>> => runs[i].length_utf16 = 0

\* C7 amended: the text of a returned run is empty only if its length_utf16 is
\* 0, or its range reaches beyond the encoded source, or its slice is not valid
\* UTF-16 (it splits a surrogate pair).
C7_EmptyTextOnlyIfZeroOrUndecodable ==
    Collected =>
        \A i \in DOMAIN runs :
            runs[i].text = <<>> =>
                \/ runs[i].length_utf16 = 0
                \/ ~SliceInBounds(runs[i])
                \/ ~WellFormedUtf16(SliceOf(runs[i]))

\* C7 witness: a returned run of one code unit, half of a surrogate pair, has
\* an empty text.
C7_WitnessSplitSurrogate ==
    /\ Collected
    /\ \E i \in DOMAIN runs :
          /\ runs[i].length_utf16 = 1
          /\ SliceInBounds(runs[i])
          /\ ~WellFormedUtf16(SliceOf(runs[i]))
          /\ runs[i].text = <<>>

\* C8: split_and_shape_text reports one entry per emitted run, in run order,
\* each the run's ShapingResult or the failure marker; a failure neither omits
\* its entry nor stops the later runs from being shaped.
C8_OneEntryPerRun ==
    Collected =>
        /\ Len(results) = idx
        /\ pc = "done" => Len(results) = Len(runs)
        /\ \A i \in DOMAIN results :
              IF results[i].some
              THEN /\ results[i].run_text = runs[i].text
                   /\ results[i].font_name = runs[i].font_name
              ELSE results[i] = None

\* C8 witness: of two emitted runs the first failed to shape and the second
\* was shaped.
C8_WitnessFailureThenSuccess ==
    /\ op = "split_and_shape_text"
    /\ pc = "done"
    /\ Len(runs) = 2
    /\ Len(results) = 2
    /\ ~results[1].some
    /\ results[2].some

\* C9: a ShapingResult has glyph_count > 0 and four sequences of exactly
\* glyph_count entries; when the engine reports a null info array, a null
\* position array or zero glyphs the result is absent.
C9_ShapingResultConsistent ==
    /\ \A i \in DOMAIN results :
          results[i].some =>
              /\ results[i].glyph_count > 0
              /\ Len(results[i].glyph_ids) = results[i].glyph_count
              /\ Len(results[i].cluster_indices) = results[i].glyph_count
              /\ Len(results[i].x_advances) = results[i].glyph_count
              /\ Len(results[i].y_advances) = results[i].glyph_count
    /\ (idx >= 1 /\ (hb_last.infos_null \/ hb_last.positions_null
                        \/ hb_last.glyph_count = 0))
          => results[idx] = None

\* C9 witness: the engine returned its glyphs and the call returned a
\* ShapingResult holding them.
C9_WitnessShaped ==
    /\ op = "shape_run_with_harfbuzz"
    /\ idx = 1
    /\ results[1].some
    /\ results[1].glyph_count = MaxGlyphs
    /\ Len(results[1].y_advances) = MaxGlyphs

\* C10: in split_str_into_runs and in split_and_shape_text a run whose range is
\* inconsistent with the text is skipped silently and the call returns
\* normally: no layout output makes the call abort.  Stated for frames without
\* null entries whose range sums fit the machine word.
C10_MalformedRangeSkipped ==
    (FrameWellStructured(frame) /\ RangeSumsFit(frame)) =>
        /\ pc # "aborted"
        /\ (op = "split_str_into_runs" /\ pc = "done") =>
              Len(printed) <= Len(SelectSeq(LayoutRunsOf(frame),
                                            LAMBDA r : ~MalformedRange(r)))
        /\ Collected =>
              Len(runs) <= Len(SelectSeq(LayoutRunsOf(frame),
                                         LAMBDA r : ~MalformedRange(r)))

\* every range of the frame is consistent with the text
RangesConsistent(f) ==
    \A i \in DOMAIN LayoutRunsOf(f) : ~MalformedRange(LayoutRunsOf(f)[i])

\* C11: split_str_into_runs reports exactly the run list that collect_runs
\* emits for the same layout answer: the same number of runs in the same
\* order, each with the same text and font name (the discard rules applied).
\* Stated for frames without null entries whose ranges are consistent with
\* the text.
C11_SameRunListAsCollection ==
    (op = "split_str_into_runs" /\ pc = "done"
        /\ FrameWellStructured(frame) /\ RangesConsistent(frame)) =>
        LET c == collect_runs(text, frame, FALSE, <<>>).runs
        IN /\ Len(printed) = Len(c)
           /\ \A i \in DOMAIN printed :
                 i \in DOMAIN c =>
                    /\ printed[i].text = c[i].text
                    /\ printed[i].postscript_name = c[i].font_name

\* no run of the frame carries a font with a non-empty name
NoNamedFontRun(f) ==
    \A i \in DOMAIN LayoutRunsOf(f) : ~HasNamedFont(LayoutRunsOf(f)[i])

ShapeCallsOn(p) == Cardinality({j \in 1..idx : runs[j].font_ptr = p})

CallsMade == CountEv(log, {"CTFramesetterCreateFrame"}, "frame", 1)

MutSplitAgainKeepsReport ==
    /\ op = "split_str_into_runs"
    /\ pc = "done"
    /\ CallsMade < MaxCalls
    /\ \E checks \in BOOLEAN, null_faults \in BOOLEAN :
          LET c == split_str_into_runs_impl(text, frame, checks, null_faults, log)
          IN /\ printed' = printed \o c.printed
             /\ log' = c.log
             /\ pc' = IF c.panicked THEN "aborted" ELSE "done"
    /\ UNCHANGED <<text, frame, op, runs, idx, results, call_base, hb_last>>

\* a further call of split_str_into_runs (lib.rs 95-106) after one returned
SplitStrIntoRunsAgain ==
    /\ op = "split_str_into_runs"
    /\ pc = "done"
    /\ CallsMade < MaxCalls
    /\ \E checks \in BOOLEAN, null_faults \in BOOLEAN :
          LET c == split_str_into_runs_impl(text, frame, checks, null_faults, log)
          IN /\ printed' = c.printed
             /\ log' = c.log
             /\ pc' = IF c.panicked THEN "aborted" ELSE "done"
    /\ UNCHANGED <<text, frame, op, runs, idx, results, call_base, hb_last>>

NextRepeat == SplitStrIntoRuns \/ SplitStrIntoRunsAgain

SpecRepeat == Init /\ [][NextRepeat]_vars

HeldRefs(l, p) == CountEv(l, {"CFRetain"}, "font", p) - Released(l, "font", p)

\* the frame of the call was created and has been released
FrameTornDown(l) == Acquired(l, "frame", 1) = 1 /\ Released(l, "frame", 1) = 1

\* C15: in split_and_shape_text every shaping step happens after the frame of
\* the call has been torn down; when a run's font handle is passed to the
\* shaping engine the core holds at least one unreleased owning reference to
\* it, also when earlier runs with the same font object have been shaped; and
\* within a call the release of the handle comes after every use of it.
C15_ShapingAfterTeardownWithLiveFont ==
    (op = "split_and_shape_text" /\ pc = "shaping") =>
        /\ FrameTornDown(log)
        /\ idx < Len(runs) => HeldRefs(log, runs[idx + 1].font_ptr) >= 1
        /\ idx >= 1 =>
              \A k \in DOMAIN LastCallLog :
                  (LastCallLog[k].fn = "CFRelease" /\ LastCallLog[k].obj = "font")
                      => k = Len(LastCallLog)

\* C15 witness: two emitted runs carry the same font object, the first has
\* been shaped past the creation of the font wrapper, and one owning
\* reference is left for the second.
C15_WitnessSharedFontSecondRun ==
    /\ op = "split_and_shape_text"
    /\ pc = "shaping"
    /\ Len(runs) = 2
    /\ idx = 1
    /\ runs[1].font_ptr = runs[2].font_ptr
    /\ CountEv(LastCallLog, {"hb_coretext_font_create"}, "hb_font", 1) = 1
    /\ HeldRefs(log, runs[2].font_ptr) = 1

\* C16: when collection returns, a run abandoned after its font handle was
\* retained (the font has no name or an empty name) has had that reference
\* released: the unreleased retained references to each font object are those
\* of the emitted runs, one per run.
C16_AbandonedRunReleased ==
    (Collected /\ idx = 0) =>
        \A p \in FontPtrs :
            HeldRefs(log, p) = Cardinality({i \in DOMAIN runs : runs[i].font_ptr = p})

\* shaping-engine objects the latest call of shape_run_with_harfbuzz created
\* and destroyed
HbCreated(obj) == Acquired(LastCallLog, obj, 1)
HbDestroyed(obj) == Released(LastCallLog, obj, 1)

\* C17: on every exit path of shape_run_with_harfbuzz the shaping-engine
\* resources destroyed are those created on that path, each once: a null font
\* handle is rejected with no native call; a wrapper-creation failure creates
\* and destroys nothing; a buffer-creation failure destroys the wrapper only;
\* every path after the buffer exists destroys the buffer and the wrapper.
C17_EngineResourcesBalanced ==
    idx >= 1 =>
        /\ HbCreated("hb_font") = HbDestroyed("hb_font")
        /\ HbCreated("hb_buffer") = HbDestroyed("hb_buffer")
        /\ IF runs[idx].font_ptr = 0 THEN LastCallLog = <<>>
           ELSE IF hb_last.font_null
                THEN HbDestroyed("hb_font") = 0 /\ HbDestroyed("hb_buffer") = 0
           ELSE IF hb_last.buffer_null
                THEN HbDestroyed("hb_font") = 1 /\ HbDestroyed("hb_buffer") = 0
           ELSE HbDestroyed("hb_font") = 1 /\ HbDestroyed("hb_buffer") = 1

\* C17 witness: a call failed at buffer creation and destroyed the wrapper it
\* had created, and no buffer.
C17_WitnessBufferFailure ==
    /\ op = "shape_run_with_harfbuzz"
    /\ idx = 1
    /\ runs[1].font_ptr # 0
    /\ hb_last = HbBufferFails
    /\ HbCreated("hb_font") = 1
    /\ HbDestroyed("hb_font") = 1
    /\ HbDestroyed("hb_buffer") = 0

\* the runs the layout service returns are in document order and do not
\* overlap: each ends at or before the start of every later one
LayoutOrdered ==
    LET lr == LayoutRunsOf(frame)
    IN \A i \in DOMAIN lr : \A j \in DOMAIN lr :
          i < j => lr[i].location + lr[i].length <= lr[j].location

\* consecutive emitted runs: the earlier ends at or before the later starts
EmissionOrdered ==
    \A i \in 1..(Len(runs) - 1) :
        runs[i].start_utf16 + runs[i].length_utf16 <= runs[i + 1].start_utf16

\* C18 as stated: in emission order the runs are in document order and do not
\* overlap, for any sequence of lines and runs the layout service returns.
\* Stated for frames whose range sums fit the machine word.
C18_EmissionOrderedAnyFrame ==
    (Collected /\ RangeSumsFit(frame)) => EmissionOrdered

\* C18 amended: emission order is the order of the layout service (line order,
\* then run order); when the runs it returns are in document order and do not
\* overlap, the emitted runs are in document order and do not overlap.
C18_EmissionOrderedWhenLayoutOrdered ==
    (Collected /\ LayoutOrdered) => EmissionOrdered

\* C18 witness: the layout service returned two non-empty runs in document
\* order on two lines and both were emitted.
C18_WitnessTwoLinesInOrder ==
    /\ Collected
    /\ LayoutOrdered
    /\ Len(frame.lines) = 2
    /\ Len(runs) = 2
    /\ runs[1].length_utf16 >= 1
    /\ runs[2].length_utf16 >= 1
    /\ runs[2].start_utf16 >= 1

\* lower-casing of the letters the model's font names are made of
LowerChar(ch) ==
    CASE ch = "E" -> "e"
      [] ch = "M" -> "m"
      [] ch = "O" -> "o"
      [] ch = "J" -> "j"
      [] ch = "I" -> "i"
      [] ch = "A" -> "a"
      [] OTHER -> ch

Lower(s) == [k \in DOMAIN s |-> LowerChar(s[k])]

\* the name contains "emoji" in some letter-casing
ContainsEmojiAnyCase(name) == contains(Lower(name), <<"e", "m", "o", "j", "i">>)

\* C19: script selection: when shape_run_with_harfbuzz sets the script of the
\* buffer it is the 'common' script if the run's font name contains "emoji"
\* in any letter-casing, and 'Latin' for every other font name.
C19_ScriptByEmojiAnyCase ==
    idx >= 1 =>
        \A k \in DOMAIN LastCallLog :
            LastCallLog[k].fn = "hb_buffer_set_script" =>
                LastCallLog[k].obj =
                    IF ContainsEmojiAnyCase(runs[idx].font_name)
                    THEN "HB_SCRIPT_COMMON" ELSE "HB_SCRIPT_LATIN"

(***************************************************************************)
(* A caller shaping one TextRun more than once: shape_run_with_harfbuzz    *)
(* takes &TextRun and TextRun is Clone, so the run outlives the call.      *)
(***************************************************************************)
\* a further call of shape_run_with_harfbuzz (lib.rs 521-647) on the run
\* shaped last
ShapeSameRunAgain ==
    /\ pc = "shaping"
    /\ idx >= 1
    /\ Len(results) < MaxCalls
    /\ \E hb \in HbOutcomes :
          LET r == shape_run_with_harfbuzz(runs[idx], hb, log)
          IN /\ results' = ReportEntry(results, r.result)
             /\ log' = r.log
             /\ hb_last' = hb
    /\ call_base' = Len(log)
    /\ UNCHANGED <<text, frame, op, pc, runs, idx, printed>>

NextReshape == ShapeNextRun \/ ShapeSameRunAgain

SpecReshape == InitShape /\ [][NextReshape]_vars

\* C20: over any sequence of calls of shape_run_with_harfbuzz on the runs of
\* one collection, the same run shaped more than once included, the releases
\* of a font handle never exceed the owning references taken for it.
C20_NoOverRelease ==
    \A p \in FontPtrs :
        Released(log, "font", p) <= Acquired(log, "font", p)

\* C21: the range validation of run collection rejects a run whose sum
\* location + length overflows the signed machine word (both non-negative):
\* the run is discarded like any other range beyond the text, so collection
\* goes on to return and no emitted run has a range whose sum left the word.
C21_OverflowingRangeRejected ==
    op = "split_and_shape_text" =>
        /\ pc # "aborted"
        /\ \A i \in DOMAIN runs :
              ~RangeSumOverflows(runs[i].start_utf16, runs[i].length_utf16)

====
